---- MODULE Spec2Model ----
(***************************************************************************)
(* Churn-prediction page (app_streamlit_COMPLETE.py): the cached artifact  *)
(* load, feature alignment, risk tiers, recommendation rules and the       *)
(* session's last prediction record, as a state machine of page runs.      *)
(*                                                                         *)
(* Units: a probability is an integer number of thousandths (0.7 is 700,   *)
(* 1.0 is 1000); feature values are whole numbers.  Message and level      *)
(* texts are abbreviated to ASCII tags, one tag per distinct source text.  *)
(***************************************************************************)
EXTENDS Integers, Sequences, FiniteSets, TLC

VARIABLES
    cache,          \* st.cache_resource entry of load_model: None or Some(package)
    loads,          \* number of pickle.load calls that returned a package
    stops,          \* number of load_model calls that ended in st.stop()
    pc,             \* position of the current script run of main()
    model_package,  \* main's local: the package load_model returned
    form,           \* widget values and submit_button of the current run
    session_state,  \* st.session_state: a mapping, possibly holding 'last_prediction'
    run,            \* what the current run called and rendered
    clock,          \* datetime.now(), counted in ticks
    recommended,    \* the list get_recommendations returned to the latest stored prediction
    call,           \* direct call of one core function: its name and arguments
    ret             \* what that call returned

vars ==
    <<cache, loads, stops, pc, model_package, form, session_state, run, clock, recommended,
      call, ret>>

----------------------------------------------------------------------------
(* Bounds of the model *)

MaxClock == 3       \* script runs explored per behaviour
MaxNames == 3       \* longest feature_names sequence given to preprocess_input
MaxVal == 2         \* raw feature values 0..MaxVal given to preprocess_input

----------------------------------------------------------------------------
(* Values *)

NoValue == "NoValue"

Range(s) == {s[i] : i \in 1..Len(s)}

\* The keys of the input_data literal, in the order it is written.
FormFeatures ==
    << "Customer_Service_Calls", "Lifetime_Value", "Cart_Abandonment_Rate", "Age",
       "Total_Purchases", "Discount_Usage_Rate", "Days_Since_Last_Purchase",
       "Average_Order_Value", "Email_Open_Rate", "Session_Duration_Avg",
       "Pages_Per_Session", "Mobile_App_Usage", "Returns_Rate", "Login_Frequency",
       "Credit_Balance" >>

\* The widgets' default values (value=...), whole units.
FormDefaults ==
    [ Customer_Service_Calls |-> 3, Lifetime_Value |-> 2000, Cart_Abandonment_Rate |-> 50,
      Age |-> 35, Total_Purchases |-> 15, Discount_Usage_Rate |-> 40,
      Days_Since_Last_Purchase |-> 30, Average_Order_Value |-> 120, Email_Open_Rate |-> 25,
      Session_Duration_Avg |-> 30, Pages_Per_Session |-> 8, Mobile_App_Usage |-> 30,
      Returns_Rate |-> 5, Login_Frequency |-> 15, Credit_Balance |-> 500 ]

\* Insertion order of a dict's keys: dicts are written in the order of the
\* form's keys, any other key after them.
KeyOrder == FormFeatures \o << "Gender" >>

IsKey(d, k) == k \in DOMAIN d

Keys(d) == SelectSeq(KeyOrder, LAMBDA k : IsKey(d, k))

----------------------------------------------------------------------------
(* pandas: a one-row frame is its column labels and the row's values *)

\* pd.DataFrame([data])
DataFrame(data) ==
    LET ks == Keys(data)
    IN  [columns |-> ks, values |-> [i \in 1..Len(ks) |-> data[ks[i]]]]

\* col in df.columns
HasColumn(df, col) == col \in Range(df.columns)

\* df[col] = v for a label that is not yet a column
AddColumn(df, col, v) ==
    [columns |-> Append(df.columns, col), values |-> Append(df.values, v)]

\* the value under label col
ColumnValue(df, col) ==
    df.values[CHOOSE j \in 1..Len(df.columns) : df.columns[j] = col]

\* df[names]: the listed columns, in the listed order
SelectColumns(df, names) ==
    [columns |-> names, values |-> [i \in 1..Len(names) |-> ColumnValue(df, names[i])]]

----------------------------------------------------------------------------
(* Results of calls that may raise *)

Ok(v) == [ok |-> TRUE, value |-> v, error |-> "none"]

Raise(e) == [ok |-> FALSE, value |-> NoValue, error |-> e]

----------------------------------------------------------------------------
(* The fitted scaler and classifier of the package, as far as the page
   depends on them: the width they were fitted on.  What they compute is
   opaque; transform's result is kept as the symbolic application. *)

\* scaler.transform(df): sklearn rejects a frame of another width
Transform(scaler, df) ==
    IF Len(df.columns) # scaler.n_features_in
    THEN Raise("ValueError")
    ELSE Ok([transformed_by |-> "scaler", columns |-> df.columns, input |-> df.values])

\* model.predict / model.predict_proba accept the scaled row iff its width fits
ModelAccepts(model, scaled_data) == Len(scaled_data.input) = model.n_features_in

----------------------------------------------------------------------------
(* preprocess_input *)

RECURSIVE FillMissing(_, _, _)
\* for col in feature_names: if col not in df.columns: df[col] = 0
FillMissing(df, feature_names, i) ==
    IF i > Len(feature_names) THEN df
    ELSE FillMissing(IF HasColumn(df, feature_names[i]) THEN df
                     ELSE AddColumn(df, feature_names[i], 0),
                     feature_names, i + 1)

\* Faulty variant of AlignedFrame: the reordering df = df[feature_names] is left out.
AlignedFrameUnordered(data, feature_names) ==
    FillMissing(DataFrame(data), feature_names, 1)

\* df = df[feature_names] after the fill: the frame handed to the scaler
AlignedFrame(data, feature_names) ==
    SelectColumns(FillMissing(DataFrame(data), feature_names, 1), feature_names)

\* The whole function: its result, and the frame the scaler received (NoValue
\* when the scaler was not reached).
preprocess_input(data, package) ==
    IF ~IsKey(package, "feature_names")
    THEN [result |-> Raise("KeyError"), handed |-> NoValue]
    ELSE IF ~IsKey(package, "scaler")
    THEN [result |-> Raise("KeyError"), handed |-> NoValue]
    ELSE LET df == AlignedFrame(data, package.feature_names)
         IN  [result |-> Transform(package.scaler, df), handed |-> df]

----------------------------------------------------------------------------
(* get_risk_level *)

\* Faulty variant of get_risk_level: the thresholds compared with > instead of >=.
get_risk_level_strict(churn_prob) ==
    IF churn_prob > 700 THEN [level |-> "very_high", color |-> "#e74c3c"]
    ELSE IF churn_prob > 500 THEN [level |-> "high", color |-> "#f39c12"]
    ELSE IF churn_prob > 300 THEN [level |-> "moderate", color |-> "#3498db"]
    ELSE [level |-> "low", color |-> "#2ecc71"]

get_risk_level(churn_prob) ==
    IF churn_prob >= 700 THEN [level |-> "very_high", color |-> "#e74c3c"]
    ELSE IF churn_prob >= 500 THEN [level |-> "high", color |-> "#f39c12"]
    ELSE IF churn_prob >= 300 THEN [level |-> "moderate", color |-> "#3498db"]
    ELSE [level |-> "low", color |-> "#2ecc71"]

----------------------------------------------------------------------------
(* get_recommendations *)

\* Faulty variant of BaseRecommendations: the high branch falls through to the next
\* one, as an `if` in place of the `elif` would make it.
BaseRecommendationsFallThrough(churn_prob) ==
    IF churn_prob >= 700 THEN << "vip_coupon", "personal_call" >>
    ELSE IF churn_prob >= 500
    THEN << "special_promotion", "reengagement_campaign", "monitoring", "loyalty_program" >>
    ELSE IF churn_prob >= 300 THEN << "monitoring", "loyalty_program" >>
    ELSE << "maintain", "referral_request" >>

\* Faulty variant of BaseRecommendations: one threshold of this copy of the
\* chain edited (0.5 to 0.6) without the copy in get_risk_level.
BaseRecommendationsDrifted(churn_prob) ==
    IF churn_prob >= 700 THEN << "vip_coupon", "personal_call" >>
    ELSE IF churn_prob >= 600 THEN << "special_promotion", "reengagement_campaign" >>
    ELSE IF churn_prob >= 300 THEN << "monitoring", "loyalty_program" >>
    ELSE << "maintain", "referral_request" >>

\* the if/elif chain on churn_prob: two appends in each branch
BaseRecommendations(churn_prob) ==
    IF churn_prob >= 700 THEN << "vip_coupon", "personal_call" >>
    ELSE IF churn_prob >= 500 THEN << "special_promotion", "reengagement_campaign" >>
    ELSE IF churn_prob >= 300 THEN << "monitoring", "loyalty_program" >>
    ELSE << "maintain", "referral_request" >>

\* Faulty variant of RuleStep: the guard compared with >= instead of >.
RuleStepInclusive(acc, input_data, key, limit, message) ==
    IF ~acc.ok THEN acc
    ELSE IF ~IsKey(input_data, key) THEN Raise("KeyError")
    ELSE IF input_data[key] >= limit THEN Ok(Append(acc.value, message))
    ELSE acc

\* if input_data[key] > limit: recommendations.append(message)
\* input_data[key] raises KeyError when the key is absent.
RuleStep(acc, input_data, key, limit, message) ==
    IF ~acc.ok THEN acc
    ELSE IF ~IsKey(input_data, key) THEN Raise("KeyError")
    ELSE IF input_data[key] > limit THEN Ok(Append(acc.value, message))
    ELSE acc

get_recommendations(churn_prob, input_data) ==
    LET r0 == Ok(BaseRecommendations(churn_prob))
        r1 == RuleStep(r0, input_data, "Customer_Service_Calls", 5, "service_improvement")
        r2 == RuleStep(r1, input_data, "Cart_Abandonment_Rate", 60, "checkout_improvement")
        r3 == RuleStep(r2, input_data, "Days_Since_Last_Purchase", 60, "repurchase_prompt")
    IN  r3

----------------------------------------------------------------------------
(* Optional values: None or Some(v) *)

None == << >>

Some(v) == << v >>

IsSome(o) == Len(o) = 1

----------------------------------------------------------------------------
(* What load_model may find on disk *)

GoodPackage ==
    [ feature_names |-> FormFeatures,
      scaler |-> [n_features_in |-> Len(FormFeatures)],
      model |-> [n_features_in |-> Len(FormFeatures)],
      all_results |-> "all_results" ]

\* A package trained on other columns, one of them not a form field.
OtherPackage ==
    [ feature_names |-> << "Age", "Membership_Years", "Customer_Service_Calls" >>,
      scaler |-> [n_features_in |-> 3],
      model |-> [n_features_in |-> 3],
      all_results |-> "all_results" ]

\* d without key k
Without(d, k) == [x \in DOMAIN d \ {k} |-> d[x]]

\* Packages whose scaler or model was fitted on another width.
MisfitScaler == [GoodPackage EXCEPT !.scaler = [n_features_in |-> 3]]

MisfitModel == [GoodPackage EXCEPT !.model = [n_features_in |-> 3]]

Packages ==
    {GoodPackage, OtherPackage, MisfitScaler, MisfitModel}
        \cup {Without(GoodPackage, k) : k \in DOMAIN GoodPackage}

\* no file at any of possible_paths; a file pickle.load raises on; a package
DiskStates ==
    {[kind |-> "missing"], [kind |-> "corrupt"]}
        \cup {[kind |-> "package", package |-> pk] : pk \in Packages}

----------------------------------------------------------------------------
(* The form: what the widgets hold when the script runs *)

FormInput(calls, abandonment, days) ==
    [FormDefaults EXCEPT !.Customer_Service_Calls = calls,
                         !.Cart_Abandonment_Rate = abandonment,
                         !.Days_Since_Last_Purchase = days]

\* the defaults; every value on its rule's limit; one, two and all above it
FormInputs ==
    {FormDefaults, FormInput(5, 60, 60), FormInput(6, 60, 60), FormInput(6, 61, 30),
     FormInput(7, 65, 90)}

\* churn probabilities model.predict_proba may return, in thousandths
ModelOutputs == {299, 300, 499, 500, 699, 700}

FreshRun ==
    [ calls |-> << >>,            \* core functions called, and "store" for the
                                  \* assignment of the record, in order
      load |-> "not_run",         \* load_model: "cached", or the kind of disk state it met
      error |-> "none",           \* exception that ended the run
      form_shown |-> FALSE,       \* st.form("prediction_form") was rendered
      risk |-> None,              \* tier shown in the result
      recommendations |-> None,   \* the list get_recommendations returned in tab 1
      preview |-> None,           \* quick recommendations shown
      more |-> FALSE,             \* caption pointing to the recommendations tab
      stored |-> FALSE,           \* this run assigned session_state['last_prediction']
      tab3 |-> None,              \* recommendations tab: the list shown
      notice |-> FALSE ]          \* recommendations tab: the 'run a prediction first' notice

----------------------------------------------------------------------------
(* Initial state: server started, nothing cached, session empty *)

Init ==
    /\ cache = None
    /\ loads = 0
    /\ stops = 0
    /\ pc = "idle"
    /\ model_package = None
    /\ form = [submit_button |-> FALSE, input_data |-> FormDefaults]
    /\ session_state = << >>
    /\ run = FreshRun
    /\ clock = 0
    /\ recommended = None
    /\ call = [fn |-> "none"]
    /\ ret = [fn |-> "none"]

----------------------------------------------------------------------------
(* A script run of main() *)

\* Streamlit reruns the script: on submit, or on any other rerun
StartRun ==
    /\ pc \in {"idle", "done", "stopped", "error"}
    /\ clock < MaxClock
    /\ \E submit \in BOOLEAN, values \in FormInputs :
          form' = [submit_button |-> submit, input_data |-> values]
    /\ clock' = clock + 1
    /\ pc' = "load"
    /\ model_package' = None
    /\ run' = FreshRun
    /\ UNCHANGED <<cache, loads, stops, session_state, recommended, call, ret>>

\* Faulty variant of LoadBody: a load that fails falls back to a default package
\* instead of calling st.stop().
LoadBodyDefault(disk) ==
    IF disk.kind = "package" THEN Ok(disk.package) ELSE Ok(GoodPackage)

\* The body of load_model, run on a cache miss: the outcome for one disk state.
\* No file at any path, or an exception in open/pickle.load: st.error, st.stop().
LoadBody(disk) ==
    IF disk.kind = "package" THEN Ok(disk.package) ELSE Raise("StopException")

\* Faulty variant of LoadModel: load_model without @st.cache_resource, its body run
\* on every script run.
LoadModelUncached ==
    /\ pc = "load"
    /\ \E disk \in DiskStates :
          LET r == LoadBody(disk)
          IN  IF r.ok
              THEN /\ cache' = Some(r.value)
                   /\ loads' = loads + 1
                   /\ model_package' = Some(r.value)
                   /\ pc' = "tab1"
                   /\ run' = [run EXCEPT !.load = disk.kind]
                   /\ UNCHANGED stops
              ELSE /\ pc' = "stopped"
                   /\ stops' = stops + 1
                   /\ run' = [run EXCEPT !.load = disk.kind, !.error = r.error]
                   /\ UNCHANGED <<cache, loads, model_package>>
    /\ UNCHANGED <<form, session_state, clock, recommended, call, ret>>

\* model_package = load_model() under @st.cache_resource: a cached package is
\* returned without running the body; a returned package is cached; st.stop()
\* ends the run and caches nothing.
LoadModel ==
    /\ pc = "load"
    /\ IF IsSome(cache)
       THEN /\ model_package' = cache
            /\ pc' = "tab1"
            /\ run' = [run EXCEPT !.load = "cached"]
            /\ UNCHANGED <<cache, loads, stops>>
       ELSE \E disk \in DiskStates :
              LET r == LoadBody(disk)
              IN  IF r.ok
                  THEN /\ cache' = Some(r.value)
                       /\ loads' = loads + 1
                       /\ model_package' = Some(r.value)
                       /\ pc' = "tab1"
                       /\ run' = [run EXCEPT !.load = disk.kind]
                       /\ UNCHANGED stops
                  ELSE /\ pc' = "stopped"
                       /\ stops' = stops + 1
                       /\ run' = [run EXCEPT !.load = disk.kind, !.error = r.error]
                       /\ UNCHANGED <<cache, loads, model_package>>
    /\ UNCHANGED <<form, session_state, clock, recommended, call, ret>>

\* Faulty variant of Fails: the exception is caught and a default prediction (0.5)
\* is stored in its place.
FailsStoringDefault(e, calls) ==
    /\ pc' = "error"
    /\ run' = [run EXCEPT !.error = e, !.calls = calls]
    /\ session_state' =
         ("last_prediction" :>
            [ input_data |-> form.input_data, churn_prob |-> 500, retain_prob |-> 500,
              risk |-> get_risk_level(500), timestamp |-> clock ])
         @@ session_state
    /\ UNCHANGED recommended

\* The run ends in an uncaught exception: Streamlit shows it, the rest of the
\* script is not executed.
Fails(e, calls) ==
    /\ pc' = "error"
    /\ run' = [run EXCEPT !.error = e, !.calls = calls]
    /\ UNCHANGED <<session_state, recommended>>

\* Faulty variant of PredictionRecord: the two probabilities stored under each
\* other's key.
PredictionRecordSwapped(input_data, churn_prob, retain_prob, risk, now) ==
    [ input_data |-> input_data, churn_prob |-> retain_prob, retain_prob |-> churn_prob,
      risk |-> risk, timestamp |-> now ]

\* The record assigned to st.session_state['last_prediction']
PredictionRecord(input_data, churn_prob, retain_prob, risk, now) ==
    [ input_data |-> input_data, churn_prob |-> churn_prob, retain_prob |-> retain_prob,
      risk |-> risk, timestamp |-> now ]

\* Faulty variant of Preview: the slice ends one entry early (recommendations[:2]).
PreviewShort(recommendations) == SubSeq(recommendations, 1, IF Len(recommendations) < 2
                                                             THEN Len(recommendations) ELSE 2)

\* recommendations[:3]
Preview(recommendations) == SubSeq(recommendations, 1, IF Len(recommendations) < 3
                                                        THEN Len(recommendations) ELSE 3)

\* What invoking the classifier on one scaled row may do: raise, or return
\* the churn probability (predict_proba(...)[0][1]).
ModelOutcomes ==
    {[raises |-> TRUE]}
        \cup {[raises |-> FALSE, churn_prob |-> p] : p \in ModelOutputs}

\* Faulty variant of Classified: the record is stored with the tier, and the
\* recommendations are computed only after the assignment.
ClassifiedStoredEarly(input_data, churn_prob, calls) ==
    LET retain_prob == 1000 - churn_prob
        risk == get_risk_level(churn_prob)
        recommendations == get_recommendations(churn_prob, input_data)
        c2 == calls \o << "predict", "predict_proba", "get_risk_level", "store",
                          "get_recommendations" >>
    IN  /\ pc' = "tab2"
        /\ run' = [run EXCEPT !.calls = c2,
                              !.risk = Some(risk),
                              !.recommendations = Some(recommendations.value),
                              !.preview = Some(Preview(recommendations.value)),
                              !.more = (Len(recommendations.value) > 3),
                              !.stored = TRUE]
        /\ recommended' = Some(recommendations.value)
        /\ session_state' =
             ("last_prediction" :>
                 PredictionRecord(input_data, churn_prob, retain_prob, risk, clock))
             @@ session_state

\* After a successful model.predict / predict_proba: the tier, the quick
\* recommendations and the stored record, for the churn probability returned.
Classified(input_data, churn_prob, calls) ==
    LET retain_prob == 1000 - churn_prob
        risk == get_risk_level(churn_prob)
        recommendations == get_recommendations(churn_prob, input_data)
        c2 == calls \o << "predict", "predict_proba", "get_risk_level",
                          "get_recommendations" >>
        c3 == Append(c2, "store")
    IN  IF ~recommendations.ok THEN Fails(recommendations.error, c2)
        ELSE /\ pc' = "tab2"
             /\ run' = [run EXCEPT !.calls = c3,
                                   !.risk = Some(risk),
                                   !.preview = Some(Preview(recommendations.value)),
                                   !.recommendations = Some(recommendations.value),
                                   !.more = (Len(recommendations.value) > 3),
                                   !.stored = TRUE]
             /\ recommended' = Some(recommendations.value)
             /\ session_state' =
                  ("last_prediction" :>
                      PredictionRecord(input_data, churn_prob, retain_prob, risk, clock))
                  @@ session_state

\* if submit_button: input_data from the widgets, preprocess_input, the
\* classifier, and what follows its outcome
Predict(package) ==
    LET input_data == form.input_data
        pre == preprocess_input(input_data, package).result
        c1 == Append(run.calls, "preprocess_input")
    IN  IF ~pre.ok THEN Fails(pre.error, c1)
        ELSE IF ~IsKey(package, "model") THEN Fails("KeyError", c1)
        ELSE IF ~ModelAccepts(package.model, pre.value)
        THEN Fails("ValueError", Append(c1, "predict"))
        ELSE \E outcome \in ModelOutcomes :
                IF outcome.raises
                THEN Fails("RuntimeError", Append(c1, "predict"))
                ELSE Classified(input_data, outcome.churn_prob, c1)

\* with tab1, up to the form: n_features reads model_package['feature_names']
Tab1Form ==
    /\ pc = "tab1"
    /\ IF ~IsKey(model_package[1], "feature_names")
       THEN Fails("KeyError", run.calls)
       ELSE /\ pc' = "form"
            /\ run' = [run EXCEPT !.form_shown = TRUE]
            /\ UNCHANGED <<session_state, recommended>>
    /\ UNCHANGED <<cache, loads, stops, model_package, form, clock, call, ret>>

\* with tab1, after the form: nothing more unless it was submitted
Tab1Submit ==
    /\ pc = "form"
    /\ IF ~form.submit_button
       THEN /\ pc' = "tab2"
            /\ UNCHANGED <<run, session_state, recommended>>
       ELSE Predict(model_package[1])
    /\ UNCHANGED <<cache, loads, stops, model_package, form, clock, call, ret>>

\* with tab2: the model analysis reads model_package['all_results']
Tab2 ==
    /\ pc = "tab2"
    /\ IF ~IsKey(model_package[1], "all_results")
       THEN Fails("KeyError", run.calls)
       ELSE /\ pc' = "tab3"
            /\ UNCHANGED <<run, session_state, recommended>>
    /\ UNCHANGED <<cache, loads, stops, model_package, form, clock, call, ret>>

\* Faulty variant of Tab3: the tab stores the list it computed in the record it read
\* (pred['recommendations'] = recommendations).
Tab3Caching ==
    /\ pc = "tab3"
    /\ IF IsKey(session_state, "last_prediction")
       THEN LET pred == session_state["last_prediction"]
                recommendations == get_recommendations(pred.churn_prob, pred.input_data)
            IN  /\ pc' = "done"
                /\ run' = [run EXCEPT !.calls = Append(run.calls, "get_recommendations"),
                                      !.tab3 = Some(recommendations.value)]
                /\ session_state' =
                     ("last_prediction" :>
                        (("recommendations" :> recommendations.value) @@ pred))
                     @@ session_state
                /\ UNCHANGED recommended
       ELSE /\ pc' = "done"
            /\ run' = [run EXCEPT !.notice = TRUE]
            /\ UNCHANGED <<session_state, recommended>>
    /\ UNCHANGED <<cache, loads, stops, model_package, form, clock, call, ret>>

\* with tab3: the recommendations of the stored prediction, or the notice;
\* tab4 and tab5 are fixed text and end the script
Tab3 ==
    /\ pc = "tab3"
    /\ IF IsKey(session_state, "last_prediction")
       THEN LET pred == session_state["last_prediction"]
                recommendations == get_recommendations(pred.churn_prob, pred.input_data)
                c == Append(run.calls, "get_recommendations")
            IN  IF ~recommendations.ok THEN Fails(recommendations.error, c)
                ELSE /\ pc' = "done"
                     /\ run' = [run EXCEPT !.calls = c,
                                           !.tab3 = Some(recommendations.value)]
                     /\ UNCHANGED <<session_state, recommended>>
       ELSE /\ pc' = "done"
            /\ run' = [run EXCEPT !.notice = TRUE]
            /\ UNCHANGED <<session_state, recommended>>
    /\ UNCHANGED <<cache, loads, stops, model_package, form, clock, call, ret>>

Next == StartRun \/ LoadModel \/ Tab1Form \/ Tab1Submit \/ Tab2 \/ Tab3

Spec == Init /\ [][Next]_vars

----------------------------------------------------------------------------
(* The core functions called directly, on inputs drawn from bounded sets *)

\* feature names a package may list, and keys a raw mapping may hold:
\* "Gender" is never a feature, "Membership_Years" never a raw key
FnNames == {"Customer_Service_Calls", "Age", "Membership_Years"}

FnRawKeys == {"Customer_Service_Calls", "Age", "Gender"}

FnNameSeqs == UNION {[1..n -> FnNames] : n \in 0..MaxNames}

FnRaws == UNION {[K -> 0..MaxVal] : K \in SUBSET FnRawKeys}

\* all probabilities, in thousandths
Probs == 0..1000

\* the probabilities around each threshold, the ends, and the two scenarios'
FnProbs == {0, 299, 300, 301, 420, 499, 500, 501, 699, 700, 701, 780, 1000}

CheckedKeys == {"Customer_Service_Calls", "Cart_Abandonment_Rate", "Days_Since_Last_Purchase"}

\* values around each rule's limit, and those of the two documented scenarios
CheckedValues ==
    [ Customer_Service_Calls |-> {3, 5, 6, 7},
      Cart_Abandonment_Rate |-> {50, 60, 61, 65},
      Days_Since_Last_Purchase |-> {30, 60, 61, 90} ]

\* feature mappings holding any subset of the checked keys
FnData ==
    UNION { {d \in [K -> 0..100] : \A k \in K : d[k] \in CheckedValues[k]} :
            K \in SUBSET CheckedKeys }

\* The calls: each function with each of its inputs
FnCalls ==
    {[fn |-> "preprocess_input", data |-> data, feature_names |-> names,
      width |-> Len(names) + extra] :
        data \in FnRaws, names \in FnNameSeqs, extra \in {0, 1}}
    \cup {[fn |-> "get_risk_level", churn_prob |-> churn_prob] : churn_prob \in Probs}
    \cup {[fn |-> "get_recommendations", churn_prob |-> churn_prob, input_data |-> data] :
            churn_prob \in FnProbs, data \in FnData}
    \cup {[fn |-> "get_recommendations", churn_prob |-> churn_prob,
           input_data |-> [k \in CheckedKeys |-> 0]] : churn_prob \in Probs}

\* One pending call; the page itself is not running.
InitFn ==
    /\ cache = None
    /\ loads = 0
    /\ stops = 0
    /\ pc = "idle"
    /\ model_package = None
    /\ form = [submit_button |-> FALSE, input_data |-> FormDefaults]
    /\ session_state = << >>
    /\ run = FreshRun
    /\ clock = 0
    /\ recommended = None
    /\ call \in FnCalls
    /\ ret = [fn |-> "none"]

\* preprocess_input(data, package), the package's scaler fitted on `width` columns
CallPreprocess ==
    /\ call.fn = "preprocess_input"
    /\ ret.fn = "none"
    /\ ret' = [fn |-> "preprocess_input",
               out |-> preprocess_input(call.data,
                          [feature_names |-> call.feature_names,
                           scaler |-> [n_features_in |-> call.width]])]
    /\ UNCHANGED <<cache, loads, stops, pc, model_package, form, session_state, run, clock,
                 recommended, call>>

CallRiskLevel ==
    /\ call.fn = "get_risk_level"
    /\ ret.fn = "none"
    /\ ret' = [fn |-> "get_risk_level", out |-> get_risk_level(call.churn_prob)]
    /\ UNCHANGED <<cache, loads, stops, pc, model_package, form, session_state, run, clock,
                 recommended, call>>

CallRecommendations ==
    /\ call.fn = "get_recommendations"
    /\ ret.fn = "none"
    /\ ret' = [fn |-> "get_recommendations",
               out |-> get_recommendations(call.churn_prob, call.input_data)]
    /\ UNCHANGED <<cache, loads, stops, pc, model_package, form, session_state, run, clock,
                 recommended, call>>

NextFn == CallPreprocess \/ CallRiskLevel \/ CallRecommendations

SpecFn == InitFn /\ [][NextFn]_vars

----------------------------------------------------------------------------
(* Claims about the core functions, checked under SpecFn *)

Returned(fn) == call.fn = fn /\ ret.fn = fn

\* raw restricted to the keys that are feature names
OnlyFeatures(raw, names) == [k \in DOMAIN raw \cap Range(names) |-> raw[k]]

\* C1: the frame preprocess_input hands to the scaler has one position per
\* entry of feature_names; position i holds raw[feature_names[i]] when that
\* name is a key of raw and 0 otherwise; dropping the keys of raw that are no
\* feature names gives the same frame.
C1_AlignedVector ==
    (Returned("preprocess_input") /\ IsKey(ret.out, "handed")) =>
        LET names == call.feature_names
            raw == call.data
            df == ret.out.handed
        IN  /\ Len(df.values) = Len(names)
            /\ df.columns = names
            /\ \A i \in 1..Len(names) :
                  df.values[i] = IF names[i] \in DOMAIN raw THEN raw[names[i]] ELSE 0
            /\ preprocess_input(OnlyFeatures(raw, names),
                                [feature_names |-> names,
                                 scaler |-> [n_features_in |-> call.width]]).handed = df

\* C1 witness: a raw value copied to the second position, a zero filled in
\* for a name raw lacks, and a raw key that is no feature name.
C1_Witness ==
    /\ Returned("preprocess_input")
    /\ call.feature_names = << "Membership_Years", "Age", "Customer_Service_Calls" >>
    /\ DOMAIN call.data = {"Age", "Gender"}
    /\ call.data["Age"] = 2
    /\ call.data["Gender"] = 1
    /\ ret.out.handed.values = << 0, 2, 0 >>

\* C2: get_risk_level is the step function with inclusive lower thresholds:
\* very high iff p >= 0.70, high iff 0.50 <= p < 0.70, moderate iff
\* 0.30 <= p < 0.50, low iff p < 0.30, for every p in [0, 1].
C2_RiskTiers ==
    Returned("get_risk_level") =>
        LET p == call.churn_prob
            level == ret.out.level
        IN  /\ level \in {"very_high", "high", "moderate", "low"}
            /\ (level = "very_high") <=> (p >= 700)
            /\ (level = "high") <=> (p >= 500 /\ p < 700)
            /\ (level = "moderate") <=> (p >= 300 /\ p < 500)
            /\ (level = "low") <=> (p < 300)

\* C2 witness: the probability exactly on the top threshold is classified
\* very high.
C2_Witness ==
    /\ Returned("get_risk_level")
    /\ call.churn_prob = 700
    /\ ret.out.level = "very_high"

\* The fixed table of base messages, by tier.
BaseTable ==
    [ very_high |-> << "vip_coupon", "personal_call" >>,
      high |-> << "special_promotion", "reengagement_campaign" >>,
      moderate |-> << "monitoring", "loyalty_program" >>,
      low |-> << "maintain", "referral_request" >> ]

TierOf(p) ==
    IF p >= 700 THEN "very_high" ELSE IF p >= 500 THEN "high"
    ELSE IF p >= 300 THEN "moderate" ELSE "low"

\* C3: a list returned by get_recommendations starts with the two base
\* messages of the probability's tier, in the table's order, and holds no
\* base message of another tier, whatever the feature values.
C3_BaseMessages ==
    (Returned("get_recommendations") /\ ret.out.ok) =>
        LET tier == TierOf(call.churn_prob)
            list == ret.out.value
        IN  /\ Len(list) >= 2
            /\ SubSeq(list, 1, 2) = BaseTable[tier]
            /\ \A t \in DOMAIN BaseTable \ {tier} :
                  Range(list) \cap Range(BaseTable[t]) = {}
            /\ \A i \in 3..Len(list) : list[i] \notin Range(BaseTable[tier])

\* C3 witness: a high-tier call whose feature values fire every rule.
C3_Witness ==
    /\ Returned("get_recommendations")
    /\ call.churn_prob = 500
    /\ ret.out.ok
    /\ Len(ret.out.value) = 5
    /\ SubSeq(ret.out.value, 1, 2) = << "special_promotion", "reengagement_campaign" >>

\* the supplementary messages the feature values call for, in rule order
Supplementary(d) ==
    (IF d["Customer_Service_Calls"] > 5 THEN << "service_improvement" >> ELSE << >>)
    \o (IF d["Cart_Abandonment_Rate"] > 60 THEN << "checkout_improvement" >> ELSE << >>)
    \o (IF d["Days_Since_Last_Purchase"] > 60 THEN << "repurchase_prompt" >> ELSE << >>)

ScenarioA ==
    [Customer_Service_Calls |-> 3, Cart_Abandonment_Rate |-> 50, Days_Since_Last_Purchase |-> 30]

ScenarioB ==
    [Customer_Service_Calls |-> 7, Cart_Abandonment_Rate |-> 65, Days_Since_Last_Purchase |-> 90]

\* C4: after the two base messages come the service message iff
\* Customer_Service_Calls > 5, the checkout message iff
\* Cart_Abandonment_Rate > 60 and the win-back message iff
\* Days_Since_Last_Purchase > 60, in that order and independent of the tier;
\* the list has 2 entries in Scenario A and 5 in Scenario B.
C4_Supplementary ==
    (Returned("get_recommendations") /\ CheckedKeys \subseteq DOMAIN call.input_data) =>
        LET d == call.input_data
            list == ret.out.value
        IN  /\ ret.out.ok
            /\ SubSeq(list, 3, Len(list)) = Supplementary(d)
            /\ Len(list) = 2 + Cardinality({k \in CheckedKeys :
                                  d[k] > (IF k = "Customer_Service_Calls" THEN 5 ELSE 60)})
            /\ (d = ScenarioA /\ call.churn_prob = 420) => Len(list) = 2
            /\ (d = ScenarioB /\ call.churn_prob = 780) => Len(list) = 5

\* C4 witness: Scenario B returns the three supplementary messages in order.
C4_Witness ==
    /\ Returned("get_recommendations")
    /\ call.input_data = ScenarioB
    /\ call.churn_prob = 780
    /\ ret.out.ok
    /\ SubSeq(ret.out.value, 3, 5) =
          << "service_improvement", "checkout_improvement", "repurchase_prompt" >>

\* C10: get_recommendations returns a list for every probability and every
\* feature mapping preprocess_input accepts, also one that omits a checked key.
C10_Total ==
    Returned("get_recommendations") => ret.out.ok

----------------------------------------------------------------------------
(* Claims about the page, checked under Spec *)

RequiredFields == {"feature_names", "scaler", "model"}

\* C5: when the scaler or the classifier raises during a prediction request,
\* the run ends in that error: no tier and no recommendations are shown,
\* nothing is stored, st.session_state is left as it was, and nothing but a
\* new script run follows.
C5_FailureSurfaced ==
    [][ /\ (pc = "form" /\ pc' = "error") =>
              /\ run'.error \in {"KeyError", "ValueError", "RuntimeError"}
              /\ run'.risk = None
              /\ run'.preview = None
              /\ ~run'.stored
              /\ run'.tab3 = None
              /\ ~run'.notice
              /\ session_state' = session_state
        /\ (pc = "error") => (pc' = "load" /\ session_state' = session_state)
      ]_vars

\* C5 witness: the classifier raised on a request made while an earlier
\* prediction's record was stored.
C5_Witness ==
    /\ pc = "error"
    /\ run.error = "RuntimeError"
    /\ run.calls = << "preprocess_input", "predict" >>
    /\ IsKey(session_state, "last_prediction")
    /\ session_state["last_prediction"].timestamp < clock

\* C6 as stated: once a load has failed, no alignment, classification,
\* recommendation or record creation happens in the process.
C6_NothingAfterFailedLoad ==
    stops > 0 => (run.calls = << >> /\ ~run.stored)

\* C6 amended: the script run whose load failed (no file, or pickle.load
\* raised) stops at once: it makes no core call, shows no form, result or
\* recommendations and stores no record, and the failure is not cached.
C6_RunStopsAfterFailedLoad ==
    run.load \in {"missing", "corrupt"} =>
        /\ pc = "stopped"
        /\ run.error = "StopException"
        /\ model_package = None
        /\ run.calls = << >>
        /\ ~run.form_shown
        /\ run.risk = None
        /\ run.preview = None
        /\ ~run.stored
        /\ run.tab3 = None
        /\ ~run.notice
        /\ stops > 0

\* C6 witness: a run stopped on a file pickle.load raised on, after an
\* earlier run was stopped too: the load was tried again, nothing was cached.
C6_Witness ==
    /\ pc = "stopped"
    /\ run.load = "corrupt"
    /\ stops = 2
    /\ cache = None

\* C7: no run reaches the prediction form with a package that lacks a
\* required field or whose scaler or classifier does not fit feature_names.
C7_FormOnlyWithValidPackage ==
    pc = "form" =>
        LET package == model_package[1]
        IN  /\ RequiredFields \subseteq DOMAIN package
            /\ package.scaler.n_features_in = Len(package.feature_names)
            /\ package.model.n_features_in = Len(package.feature_names)

\* C8: pickle.load returns a package at most once per process; from then on
\* the cached package never changes, and every run that gets past load_model
\* works on exactly that package.
C8_LoadedOnceReadOnly ==
    [][ /\ loads' <= 1
        /\ IsSome(cache) => cache' = cache
        /\ IsSome(model_package') => model_package' = cache'
      ]_vars

\* C8 witness: a later run served a prediction from the cached package.
C8_Witness ==
    /\ loads = 1
    /\ run.load = "cached"
    /\ run.stored
    /\ pc = "done"
    /\ clock >= 2

\* C9: st.session_state changes only in the step that stores a successful
\* prediction; that step stores a record made wholly of the new request
\* (its inputs, probabilities, tier and time); page runs and tab views leave
\* the record as it was.
C9_RecordImmutable ==
    [][ /\ ~(run'.stored /\ ~run.stored) => session_state' = session_state
        /\ (run'.stored /\ ~run.stored) =>
              LET r == session_state'["last_prediction"]
              IN  /\ DOMAIN r = {"input_data", "churn_prob", "retain_prob", "risk",
                                 "timestamp"}
                  /\ r.input_data = form.input_data
                  /\ r.churn_prob \in ModelOutputs
                  /\ r.retain_prob = 1000 - r.churn_prob
                  /\ Some(r.risk) = run'.risk
                  /\ r.timestamp = clock
      ]_vars

\* C9 witness: a record stored by an earlier run, still there after a later
\* run showed it on the recommendations tab.
C9_Witness ==
    /\ pc = "done"
    /\ ~run.stored
    /\ IsSome(run.tab3)
    /\ IsKey(session_state, "last_prediction")
    /\ session_state["last_prediction"].timestamp < clock

\* the calls of one prediction, up to the assignment of its record
PredictionCalls ==
    << "preprocess_input", "predict", "predict_proba", "get_risk_level",
       "get_recommendations", "store" >>

\* C11 as stated: a prediction is one aligner call, one classifier call and
\* one recommendation call, then the record is stored, and the run makes no
\* further such call for it.
C11_OneCallEach ==
    run.stored => run.calls = PredictionCalls

\* C11 amended: a prediction calls preprocess_input, the classifier
\* (predict, predict_proba, get_risk_level) and get_recommendations once
\* each, in that order, and only then stores the record; afterwards no
\* aligner or classifier call is made, but the recommendations tab of the
\* same run calls get_recommendations once more on the stored record, as
\* does every later run that reaches the tab.
C11_CallsThenRecompute ==
    /\ run.stored =>
          /\ Len(run.calls) >= 6
          /\ SubSeq(run.calls, 1, 6) = PredictionCalls
          /\ SubSeq(run.calls, 7, Len(run.calls)) \in {<< >>, << "get_recommendations" >>}
          /\ pc = "done" => run.calls = Append(PredictionCalls, "get_recommendations")
    /\ (~run.stored /\ pc \in {"tab2", "tab3", "done"}) =>
          /\ run.calls \in {<< >>, << "get_recommendations" >>}
          /\ (pc = "done" /\ IsKey(session_state, "last_prediction")) =>
                run.calls = << "get_recommendations" >>

\* C11 witness: a run that predicted, stored the record and then showed the
\* recommendations tab.
C11_Witness ==
    /\ pc = "done"
    /\ run.stored
    /\ Len(run.calls) = 7
    /\ run.calls[7] = "get_recommendations"

\* the checked features of d whose rule fires
Fired(d) ==
    {k \in CheckedKeys : d[k] > (IF k = "Customer_Service_Calls" THEN 5 ELSE 60)}

\* C13: the quick preview after a prediction shows the first min(3, n)
\* entries of the n-entry recommendation list, in the list's order, and the
\* caption pointing to the recommendations tab is shown iff n > 3, that is
\* iff at least two supplementary rules fired.
C13_QuickPreview ==
    run.stored =>
        LET list == run.recommendations[1]
            n == Len(list)
            shown == run.preview[1]
        IN  /\ Len(shown) = (IF n < 3 THEN n ELSE 3)
            /\ \A i \in 1..Len(shown) : shown[i] = list[i]
            /\ run.more <=> (n > 3)
            /\ run.more <=> (Cardinality(Fired(form.input_data)) >= 2)

\* C13 witness: a five-entry list, three of them previewed, with the caption.
C13_Witness ==
    /\ run.stored
    /\ Len(run.recommendations[1]) = 5
    /\ Len(run.preview[1]) = 3
    /\ run.more

\* C14: for every churn probability the base messages get_recommendations
\* emits are those of the tier get_risk_level returns for it.
C14_SameTier ==
    (Returned("get_recommendations") /\ ret.out.ok) =>
        /\ Len(ret.out.value) >= 2
        /\ SubSeq(ret.out.value, 1, 2) = BaseTable[get_risk_level(call.churn_prob).level]

\* C14 witness: just below the top threshold both functions say high.
C14_Witness ==
    /\ Returned("get_recommendations")
    /\ call.churn_prob = 699
    /\ ret.out.ok
    /\ get_risk_level(699).level = "high"
    /\ SubSeq(ret.out.value, 1, 2) = << "special_promotion", "reengagement_campaign" >>

\* C15: the stored record holds no recommendation list; whenever a run shows
\* the recommendations tab, the tab lists exactly what get_recommendations
\* returned to the latest successful prediction, and it shows the notice
\* instead iff no prediction has succeeded in the session.
C15_TabShowsLatest ==
    /\ IsKey(session_state, "last_prediction") <=> IsSome(recommended)
    /\ IsKey(session_state, "last_prediction") =>
          "recommendations" \notin DOMAIN session_state["last_prediction"]
    /\ pc = "done" =>
          /\ run.notice <=> ~IsSome(recommended)
          /\ IsSome(run.tab3) <=> IsSome(recommended)
          /\ IsSome(recommended) => run.tab3 = recommended

\* C15 witness: a run that did not predict, whose form holds the defaults,
\* shows the five entries computed for the earlier stored prediction.
C15_Witness ==
    /\ pc = "done"
    /\ ~run.stored
    /\ form.input_data = FormDefaults
    /\ IsSome(recommended)
    /\ Len(recommended[1]) = 5
    /\ run.tab3 = recommended
    /\ session_state["last_prediction"].timestamp < clock

====
